---- MODULE Spec2Model ----
(***************************************************************************)
(* Model of v2/build.py: the static-site build of the drill curriculum.    *)
(*                                                                         *)
(* A JSON string is a sequence of one-character strings (<<"a","|","b">>   *)
(* is "a|b"), so that concatenation, file names and the text pass over the *)
(* serialised registry act on characters.  A JSON object is a record; a    *)
(* key the object lacks is a field the record lacks (k \notin DOMAIN obj), *)
(* which is when Python's obj[k] raises KeyError.  A lesson of the input   *)
(* carries its JSON type: [kind |-> "str", str |-> s] is the string s and  *)
(* [kind |-> "obj", obj |-> r] the object r.                               *)
(***************************************************************************)
EXTENDS Integers, Sequences, FiniteSets, TLC

\* ---------------------------------------------------------------- bounds
\* One run of build(): the schema has at most MaxPages pages, a page at most
\* MaxSections sections, a section at most MaxLessons lessons.
MaxPages == 2
MaxSections == 1
MaxLessons == 2
\* A session of builds: at most MaxBuilds runs of build(), over schemas whose
\* sections have at most SessionMaxLessons lessons.
MaxBuilds == 2
SessionMaxLessons == 1

\* ------------------------------------------------------- program constants
\* range(1, 4): the level numbers 1, 2, 3
FirstLevel == 1
LevelStop == 4
\* json.dumps(..., indent=2)
Indent == 2

LevelNums == FirstLevel..(LevelStop - 1)

HtmlSuffix == <<".", "h", "t", "m", "l">>
AppFile == <<"A", "p", "p">> \o HtmlSuffix
IndexFile == <<"i", "n", "d", "e", "x">> \o HtmlSuffix
DefaultSeed == <<"d", "e", "f", "a", "u", "l", "t", "_", "s", "e", "e", "d">>

\* The characters Python's \s matches among those the input alphabet and
\* json.dumps produce.
Whitespace == {" ", "\n"}

\* ---------------------------------------------------------- input universe
Titles == {<<"a">>, <<"a", "|", "b">>, <<"A", "p", "p">>, <<"i", "n", "d", "e", "x">>}
Headings == {<<"c">>, <<"b", "|", "c">>}
Seeds == {DefaultSeed, <<"k">>}

StrLesson(s) == [kind |-> "str", str |-> s]
ObjLesson(r) == [kind |-> "obj", obj |-> r]

SeqsUpTo(S, n) == UNION {[1..k -> S] : k \in 0..n}

\* Well-formed lessons: a bare string, an object with a name.
GoodLessons == {StrLesson(<<"d">>), ObjLesson([name |-> <<"e", " ", "]">>])}
\* Well-formed page lists whose sections have at most n lessons.
GoodSections(n) == {[heading |-> h, lessons |-> ls] : h \in Headings, ls \in SeqsUpTo(GoodLessons, n)}
GoodPages(n) == {[title |-> t, sections |-> ss] : t \in Titles, ss \in SeqsUpTo(GoodSections(n), MaxSections)}
GoodPageLists(n) == SeqsUpTo(GoodPages(n), MaxPages)

\* Input with a key missing somewhere.  What is missing decides the outcome,
\* not the strings around it, so these are built over one title, one heading
\* and one lesson name.
PlainLessons == {StrLesson(<<"d">>)}
PlainSections(n) == {[heading |-> <<"c">>, lessons |-> ls] : ls \in SeqsUpTo(PlainLessons, n)}
PlainPages(n) == {[title |-> <<"a">>, sections |-> ss] : ss \in SeqsUpTo(PlainSections(n), MaxSections)}
\* an object lesson whose name key is misspelt
PartialLessons == {ObjLesson([nam |-> <<"d">>])}
PartialSections(n) ==
    {[heading |-> <<"c">>]}
    \cup {[lessons |-> ls] : ls \in SeqsUpTo(PlainLessons, n)}
    \cup {[heading |-> <<"c">>, lessons |-> <<b>>] : b \in PartialLessons}
PartialPages(n) ==
    {[title |-> <<"a">>]}
    \cup {[sections |-> ss] : ss \in SeqsUpTo(PlainSections(n), MaxSections)}
    \cup {[title |-> <<"a">>, sections |-> <<b>>] : b \in PartialSections(n)}
\* One such page, alone, before or after a well-formed page.
PartialPageLists(n) ==
    {<<b>> : b \in PartialPages(n)}
    \cup (IF MaxPages >= 2
          THEN {<<g, b>> : g \in PlainPages(n), b \in PartialPages(n)}
               \cup {<<b, g>> : b \in PartialPages(n), g \in PlainPages(n)}
          ELSE {})

\* config: with a seed, or present without uuid_seed
Configs == {[uuid_seed |-> s] : s \in Seeds} \cup {[lang |-> <<"e", "n">>]}

\* A schema with the pages ps, without config or with one.
WithConfigs(ps) == {[pages |-> ps]} \cup {[config |-> c, pages |-> ps] : c \in Configs}

\* The schemas whose sections have at most n lessons: well-formed, with a key
\* missing in a page, or without pages.
SchemasOf(n) ==
    UNION {WithConfigs(ps) : ps \in GoodPageLists(n) \cup PartialPageLists(n)}
    \cup {[config |-> c] : c \in Configs}

Schemas == SchemasOf(MaxLessons)
SessionSchemas == SchemasOf(SessionMaxLessons)

NoFile == [exists |-> FALSE]
File(j) == [exists |-> TRUE, json |-> j]

\* ------------------------------------------------------------ identifiers
RECURSIVE Join(_)
\* The characters of s as one string.
Join(s) == IF s = <<>> THEN "" ELSE Head(s) \o Join(Tail(s))

\* uuid.NAMESPACE_DNS, as its string form
NAMESPACE_DNS == "dns"

\* schemaFile: schema.json on disk; pc: where build() stands; builds: the builds
\* started; schema, NAMESPACE, drill_registry, nav_items, pageIdx: the locals of
\* build(); dirExists, dist: the output directory and its files; registryFile:
\* drill_registry.json; lastRun: the input and results of the last build that
\* ran to its end (a history variable).
VARIABLES schemaFile, pc, builds, schema, NAMESPACE, drill_registry, nav_items,
          pageIdx, dirExists, dist, registryFile, lastRun

vars == <<schemaFile, pc, builds, schema, NAMESPACE, drill_registry, nav_items,
          pageIdx, dirExists, dist, registryFile, lastRun>>

\* uuid4-like: a fresh identifier per build, whatever the namespace and name.
uuid5_fresh(namespace, name) == "{" \o namespace \o ":" \o Join(name) \o "#" \o ToString(builds) \o "}"

\* str(uuid.uuid5(namespace, name)): a name-based identifier, a function of
\* (namespace, name) alone.  SHA-1 is taken as collision-free: distinct
\* (namespace, name) give distinct identifiers.  The identifier is one string
\* holding no whitespace, bracket or quote, like the 36 hex-and-dash characters.
uuid5(namespace, name) == "{" \o namespace \o ":" \o Join(name) \o "}"

\* schema.get("config", {}).get("uuid_seed", "default_seed") with the fallback
\* dropped when config is present: config["uuid_seed"] defaulting to "".
seed_string_nofallback(s) ==
    IF "config" \in DOMAIN s /\ "uuid_seed" \in DOMAIN s.config THEN s.config.uuid_seed
    ELSE IF "config" \in DOMAIN s THEN <<>> ELSE DefaultSeed

seed_string(s) ==
    IF "config" \in DOMAIN s /\ "uuid_seed" \in DOMAIN s.config THEN s.config.uuid_seed
    ELSE DefaultSeed

\* schema.get("config", {}) as the templates receive it
ConfigOf(s) == IF "config" \in DOMAIN s THEN s.config ELSE [c \in {} |-> <<>>]

\* f"{title}|{heading}|{lesson_name}": the level number left out
unique_path_nolevel(title, heading, lesson_name, i) ==
    title \o <<"|">> \o heading \o <<"|">> \o lesson_name

\* f"{page['title']}|{section['heading']}|{lesson_name}|{i}"
unique_path(title, heading, lesson_name, i) ==
    title \o <<"|">> \o heading \o <<"|">> \o lesson_name \o <<"|">> \o <<ToString(i)>>

\* --------------------------------------------------------------- registry
\* drill_registry is a Python dict: a sequence of [key, val] in insertion
\* order, a key at most once.
RegKeys(reg) == {reg[k].key : k \in DOMAIN reg}
RegIndex(reg, u) == CHOOSE k \in DOMAIN reg : reg[k].key = u
RegGet(reg, u) == reg[RegIndex(reg, u)].val

\* drill_registry.setdefault(u, v): the first value written stays
RegPutFirst(reg, u, v) ==
    IF u \in RegKeys(reg) THEN reg ELSE Append(reg, [key |-> u, val |-> v])

\* drill_registry[u] = v dedented out of the level loop: run once per lesson,
\* with the last level's u and i
RegPutLastLevel(reg, u, v) ==
    IF v[4] # LevelStop - 1 THEN reg
    ELSE IF u \in RegKeys(reg) THEN [reg EXCEPT ![RegIndex(reg, u)].val = v]
    ELSE Append(reg, [key |-> u, val |-> v])

\* drill_registry[u] = v: a new key goes last, an old key keeps its place and
\* takes the new value
RegPut(reg, u, v) ==
    IF u \in RegKeys(reg) THEN [reg EXCEPT ![RegIndex(reg, u)].val = v]
    ELSE Append(reg, [key |-> u, val |-> v])

\* ------------------------------------------------------------ the tree walk
Err == [ok |-> FALSE]

\* lesson if isinstance(lesson, str) else lesson.get('name', '')
LessonNameGet(lesson) ==
    IF lesson.kind = "str" THEN [ok |-> TRUE, name |-> lesson.str]
    ELSE IF "name" \in DOMAIN lesson.obj THEN [ok |-> TRUE, name |-> lesson.obj.name]
    ELSE [ok |-> TRUE, name |-> <<>>]

\* lesson if isinstance(lesson, str) else lesson['name']
LessonName(lesson) ==
    IF lesson.kind = "str" THEN [ok |-> TRUE, name |-> lesson.str]
    ELSE IF "name" \in DOMAIN lesson.obj THEN [ok |-> TRUE, name |-> lesson.obj.name]
    ELSE Err

\* The registry value with title and heading in the wrong order
RegistryValueSwapped(title, heading, lesson_name, i) == <<heading, title, lesson_name, i>>

\* [page['title'], section['heading'], lesson_name, i]
RegistryValue(title, heading, lesson_name, i) == <<title, heading, lesson_name, i>>

\* range(1, 3)
LevelRangeShort == FirstLevel..(LevelStop - 2)

\* range(1, 4)
LevelRange == LevelNums

RECURSIVE LevelLoop(_, _, _, _, _, _, _)
\* The body of "for i in range(1, 4)" from level i on: levels is
\* lesson_data["levels"] so far, reg the registry so far.
LevelLoop(ns, page, section, lesson_name, i, levels, reg) ==
    IF i \notin LevelRange THEN [ok |-> TRUE, levels |-> levels, reg |-> reg]
    ELSE IF "heading" \notin DOMAIN section THEN Err
    ELSE LET u == uuid5(ns, unique_path(page.title, section.heading, lesson_name, i))
         IN LevelLoop(ns, page, section, lesson_name, i + 1,
                      Append(levels, [num |-> i, uid |-> u]),
                      RegPut(reg, u, RegistryValue(page.title, section.heading, lesson_name, i)))

RECURSIVE LessonLoop(_, _, _, _, _, _)
\* "for lesson in section['lessons']" from lesson k on: processed is
\* processed_lessons so far.
LessonLoop(ns, page, section, k, processed, reg) ==
    IF k > Len(section.lessons) THEN [ok |-> TRUE, processed |-> processed, reg |-> reg]
    ELSE LET nm == LessonName(section.lessons[k])
         IN IF ~nm.ok THEN Err
            ELSE LET lv == LevelLoop(ns, page, section, nm.name, FirstLevel, <<>>, reg)
                 IN IF ~lv.ok THEN Err
                    ELSE LessonLoop(ns, page, section, k + 1,
                                    Append(processed, [name |-> nm.name, levels |-> lv.levels]),
                                    lv.reg)

\* section["lessons"] = processed_lessons
StoreLessons(section, processed) == [section EXCEPT !.lessons = processed]

RECURSIVE SectionLoop(_, _, _, _, _)
\* "for section in page['sections']" from section k on; page holds the sections
\* already rewritten.
SectionLoop(ns, page, k, sections, reg) ==
    IF k > Len(page.sections) THEN [ok |-> TRUE, sections |-> sections, reg |-> reg]
    ELSE LET section == page.sections[k]
         IN IF "lessons" \notin DOMAIN section THEN Err
            ELSE LET ls == LessonLoop(ns, page, section, 1, <<>>, reg)
                 IN IF ~ls.ok THEN Err
                    ELSE SectionLoop(ns, page, k + 1,
                                     Append(sections, StoreLessons(section, ls.processed)),
                                     ls.reg)

RECURSIVE PageLoop(_, _, _, _, _)
\* "for page in schema['pages']" from page k on.
PageLoop(ns, pgs, k, done, reg) ==
    IF k > Len(pgs) THEN [ok |-> TRUE, pages |-> done, reg |-> reg]
    ELSE LET page == pgs[k]
         IN IF "sections" \notin DOMAIN page THEN Err
            ELSE LET ss == SectionLoop(ns, page, 1, <<>>, reg)
                 IN IF ~ss.ok THEN Err
                    ELSE PageLoop(ns, pgs, k + 1,
                                  Append(done, [page EXCEPT !.sections = ss.sections]),
                                  ss.reg)

\* nav_items = [{"title": p["title"], "url": f"{p['title']}.html"} for p in schema["pages"]]
NavItems(s) ==
    IF "pages" \notin DOMAIN s THEN Err
    ELSE IF \E k \in DOMAIN s.pages : "title" \notin DOMAIN s.pages[k] THEN Err
    ELSE [ok |-> TRUE,
          items |-> [k \in DOMAIN s.pages |-> [title |-> s.pages[k].title, url |-> s.pages[k].title \o HtmlSuffix]]]

\* Lines 33-66 on schema s with namespace ns: the registry, the navigation
\* list and the schema with every lesson rewritten, or the KeyError.
WalkTree(s, ns) ==
    LET nav == NavItems(s)
    IN IF ~nav.ok THEN Err
       ELSE LET w == PageLoop(ns, s.pages, 1, <<>>, <<>>)
            IN IF ~w.ok THEN Err
               ELSE [ok |-> TRUE, nav_items |-> nav.items, registry |-> w.reg,
                     schema |-> [s EXCEPT !.pages = w.pages]]

\* ------------------------------------------------ the registry file's text
\* A text is a sequence of characters; an identifier is one element of it.
Spaces(n) == [k \in 1..n |-> " "]

\* json.dumps of a string of the input alphabet (nothing to escape)
DumpsString(s) == <<"\"">> \o s \o <<"\"">>

\* json.dumps of a registry value at nesting depth 1, indent=2
DumpsValue(v) ==
    <<"[", "\n">>
    \o Spaces(2 * Indent) \o DumpsString(v[1]) \o <<",", "\n">>
    \o Spaces(2 * Indent) \o DumpsString(v[2]) \o <<",", "\n">>
    \o Spaces(2 * Indent) \o DumpsString(v[3]) \o <<",", "\n">>
    \o Spaces(2 * Indent) \o <<ToString(v[4])>> \o <<"\n">>
    \o Spaces(Indent) \o <<"]">>

DumpsEntry(e) == Spaces(Indent) \o <<"\"", e.key, "\"", ":", " ">> \o DumpsValue(e.val)

RECURSIVE DumpsEntries(_, _)
DumpsEntries(reg, k) ==
    IF k > Len(reg) THEN <<>>
    ELSE DumpsEntry(reg[k]) \o (IF k < Len(reg) THEN <<",", "\n">> ELSE <<>>) \o DumpsEntries(reg, k + 1)

\* json.dumps(drill_registry, indent=2, ensure_ascii=False)
Dumps(reg) ==
    IF reg = <<>> THEN <<"{", "}">>
    ELSE <<"{", "\n">> \o DumpsEntries(reg, 1) \o <<"\n", "}">>

RECURSIVE NextClose(_, _)
\* The first "]" of t at or after j, 0 when there is none.
NextClose(t, j) ==
    IF j > Len(t) THEN 0 ELSE IF t[j] = "]" THEN j ELSE NextClose(t, j + 1)

RECURSIVE RunEnd(_, _)
\* Where the run of whitespace holding t[p] ends.
RunEnd(t, p) ==
    IF p + 1 <= Len(t) /\ t[p + 1] \in Whitespace THEN RunEnd(t, p + 1) ELSE p

RECURSIVE RunStart(_, _)
\* Where the run of whitespace holding t[p] starts.
RunStart(t, p) ==
    IF p - 1 >= 1 /\ t[p - 1] \in Whitespace THEN RunStart(t, p - 1) ELSE p

\* Where \[\s+([^\]]+?)\s+\] matching at j ends, 0 when it does not match at
\* j: t[j] is "[", the next "]" is at e, whitespace follows the "[" and
\* precedes the "]", and between them are at least three characters.
MatchEnd(t, j) ==
    IF t[j] # "[" THEN 0
    ELSE LET e == NextClose(t, j + 1)
         IN IF e # 0 /\ e - j - 1 >= 3 /\ t[j + 1] \in Whitespace /\ t[e - 1] \in Whitespace
            THEN e ELSE 0

\* m.group(1) of the match from j to e: the greedy \s+ takes the leading
\* whitespace, the lazy group ends at the last character that is not
\* whitespace; of whitespace alone, the group is its last character but one.
Group1(t, j, e) ==
    LET first == RunEnd(t, j + 1) + 1
        last == RunStart(t, e - 1) - 1
    IN IF first > e - 1 THEN <<t[e - 2]>> ELSE SubSeq(t, first, last)

RECURSIVE JoinLines(_, _)
\* re.sub(r'\s*\n\s*', ' ', x) from position p on: a run of whitespace that
\* holds a line break becomes one space.
JoinLines(x, p) ==
    IF p > Len(x) THEN <<>>
    ELSE IF x[p] \notin Whitespace THEN <<x[p]>> \o JoinLines(x, p + 1)
    ELSE LET r == RunEnd(x, p)
         IN (IF \E k \in p..r : x[k] = "\n" THEN <<" ">> ELSE SubSeq(x, p, r))
            \o JoinLines(x, r + 1)

\* The least member of a set of numbers.
Least(S) == CHOOSE x \in S : \A y \in S : x <= y

RECURSIVE CollapseFrom(_, _, _)
\* re.sub(r'\[\s+([^\]]+?)\s+\]', lambda m: "[" + re.sub(...) + "]", t) from
\* position i on; opens are the positions of "[" in t.  The scan moves to the
\* next "[": a match there is rewritten and the scan goes on after it, the
\* text in between is kept.
CollapseFrom(t, i, opens) ==
    LET ahead == {j \in opens : j >= i}
    IN IF ahead = {} THEN SubSeq(t, i, Len(t))
       ELSE LET j == Least(ahead)
                e == MatchEnd(t, j)
            IN IF e = 0 THEN SubSeq(t, i, j) \o CollapseFrom(t, j + 1, opens)
               ELSE SubSeq(t, i, j) \o JoinLines(Group1(t, j, e), 1) \o <<"]">>
                    \o CollapseFrom(t, e + 1, opens)

\* Lines 106-110: the text written to drill_registry.json
RegistryText(reg) ==
    LET t == Dumps(reg)
    IN CollapseFrom(t, 1, {j \in 1..Len(t) : t[j] = "["})

\* ------------------------------------------------------------- rendering
\* template.render(page=..., nav_items=..., config=...): the templating engine
\* is outside this program; a render is known by its template and its context.
Render(template, page, nav, config) ==
    [template |-> template, page |-> page, nav_items |-> nav, config |-> config]

\* os.path.join(OUTPUT_DIR, f"{page['title']}.html"), within OUTPUT_DIR
ListFile(page) == page.title \o HtmlSuffix

\* open(path, "w").write(content) in OUTPUT_DIR
WriteFile(dir, name, content) ==
    [f \in DOMAIN dir \cup {name} |-> IF f = name THEN content ELSE dir[f]]

\* ---------------------------------------------------------------- actions
Unloaded == [unloaded |-> TRUE]
NoFiles == [f \in {} |-> Unloaded]

\* Nothing built yet: no output directory, no registry file.
Fresh ==
    /\ pc = "idle"
    /\ builds = 0
    /\ schema = Unloaded
    /\ NAMESPACE = ""
    /\ drill_registry = <<>>
    /\ nav_items = <<>>
    /\ pageIdx = 0
    /\ dirExists = FALSE
    /\ dist = NoFiles
    /\ registryFile = NoFile
    /\ lastRun = [has |-> FALSE]

Init ==
    /\ schemaFile \in {NoFile} \cup {File(j) : j \in Schemas}
    /\ Fresh

InitSession ==
    /\ schemaFile \in {NoFile} \cup {File(j) : j \in SessionSchemas}
    /\ Fresh

\* Lines 16-29: build() starts; a missing schema.json ends it.
StartBuild ==
    /\ builds' = builds + 1
    /\ drill_registry' = <<>>
    /\ nav_items' = <<>>
    /\ pageIdx' = 0
    /\ IF schemaFile.exists
       THEN /\ schema' = schemaFile.json
            /\ NAMESPACE' = uuid5(NAMESPACE_DNS, seed_string(schemaFile.json))
            /\ pc' = "loaded"
       ELSE /\ schema' = Unloaded
            /\ NAMESPACE' = ""
            /\ pc' = "aborted"
    /\ UNCHANGED <<schemaFile, dirExists, dist, registryFile, lastRun>>

\* The first run of build().
Load ==
    /\ pc = "idle"
    /\ StartBuild

Stopped == pc \in {"done", "aborted"}

\* build() is run again, over the outputs of the runs before.
Rebuild ==
    /\ Stopped
    /\ builds < MaxBuilds
    /\ StartBuild

\* Lines 33-66: the navigation list and the tree walk; a KeyError ends build().
ProcessTree ==
    /\ pc = "loaded"
    /\ LET w == WalkTree(schema, NAMESPACE)
       IN IF w.ok
          THEN /\ schema' = w.schema
               /\ drill_registry' = w.registry
               /\ nav_items' = w.nav_items
               /\ pc' = "walked"
          ELSE /\ schema' = Unloaded
               /\ drill_registry' = <<>>
               /\ nav_items' = <<>>
               /\ pc' = "aborted"
    /\ UNCHANGED <<schemaFile, builds, NAMESPACE, pageIdx, dirExists, dist, registryFile, lastRun>>

\* Line 69: os.makedirs(OUTPUT_DIR, exist_ok=True)
MakeDirs ==
    /\ pc = "walked"
    /\ dirExists' = TRUE
    /\ pageIdx' = 1
    /\ pc' = IF Len(schema.pages) = 0 THEN "app" ELSE "list"
    /\ UNCHANGED <<schemaFile, builds, schema, NAMESPACE, drill_registry, nav_items, dist, registryFile, lastRun>>

\* Lines 73-81: one turn of "for page in schema['pages']"
RenderList ==
    /\ pc = "list"
    /\ LET page == schema.pages[pageIdx]
       IN dist' = WriteFile(dist, ListFile(page), Render("list.j2", page, nav_items, ConfigOf(schema)))
    /\ pageIdx' = pageIdx + 1
    /\ pc' = IF pageIdx = Len(schema.pages) THEN "app" ELSE "list"
    /\ UNCHANGED <<schemaFile, builds, schema, NAMESPACE, drill_registry, nav_items, dirExists, registryFile, lastRun>>

\* Lines 84-92
RenderApp ==
    /\ pc = "app"
    /\ dist' = WriteFile(dist, AppFile, Render("app.j2", [title |-> <<"D", "r", "i", "l", "l">>], nav_items, ConfigOf(schema)))
    /\ pc' = "index"
    /\ UNCHANGED <<schemaFile, builds, schema, NAMESPACE, drill_registry, nav_items, pageIdx, dirExists, registryFile, lastRun>>

\* Lines 95-103
RenderIndex ==
    /\ pc = "index"
    /\ dist' = WriteFile(dist, IndexFile, Render("index.j2", [title |-> <<"H", "o", "m", "e">>], nav_items, ConfigOf(schema)))
    /\ pc' = "save"
    /\ UNCHANGED <<schemaFile, builds, schema, NAMESPACE, drill_registry, nav_items, pageIdx, dirExists, registryFile, lastRun>>

\* Lines 106-112: the registry file is written anew; build() ends.
SaveRegistry ==
    /\ pc = "save"
    /\ registryFile' = [exists |-> TRUE, text |-> RegistryText(drill_registry)]
    /\ lastRun' = [has |-> TRUE, input |-> schemaFile.json, schema |-> schema, registry |-> drill_registry]
    /\ pc' = "done"
    /\ UNCHANGED <<schemaFile, builds, schema, NAMESPACE, drill_registry, nav_items, pageIdx, dirExists, dist>>

\* Between builds the author edits the config of schema.json: sets a seed,
\* drops the seed, or drops config.
EditConfig ==
    /\ Stopped
    /\ schemaFile.exists
    /\ "pages" \in DOMAIN schemaFile.json
    /\ \E j \in WithConfigs(schemaFile.json.pages) :
          /\ j # schemaFile.json
          /\ schemaFile' = File(j)
    /\ UNCHANGED <<pc, builds, schema, NAMESPACE, drill_registry, nav_items, pageIdx, dirExists, dist, registryFile, lastRun>>

\* Between builds schema.json is removed.
DeleteInput ==
    /\ Stopped
    /\ schemaFile.exists
    /\ schemaFile' = NoFile
    /\ UNCHANGED <<pc, builds, schema, NAMESPACE, drill_registry, nav_items, pageIdx, dirExists, dist, registryFile, lastRun>>

Next ==
    \/ Load
    \/ ProcessTree
    \/ MakeDirs
    \/ RenderList
    \/ RenderApp
    \/ RenderIndex
    \/ SaveRegistry

NextSession ==
    \/ Next
    \/ Rebuild
    \/ EditConfig
    \/ DeleteInput

\* One run of build() on any schema of the universe.
Spec == Init /\ [][Next]_vars

\* Runs of build() with the author's changes to schema.json in between.
SpecSession == InitSession /\ [][NextSession]_vars

\* ------------------------------------------------- vocabulary of the properties
\* The tree walk of the current run is over.
Walked == pc \in {"walked", "list", "app", "index", "save", "done"}
\* The current run is past the tree walk and not yet at its end.
Rendering == pc \in {"walked", "list", "app", "index", "save"}

\* The schema the current run read.  schema.json changes only between runs.
InputSchema == IF pc = "done" THEN lastRun.input ELSE schemaFile.json

\* The lessons of schema s, each as <<page, section, lesson>> indices.
Positions(s) ==
    {<<p, q, l>> \in (1..MaxPages) \X (1..MaxSections) \X (1..MaxLessons) :
        /\ p \in DOMAIN s.pages
        /\ q \in DOMAIN s.pages[p].sections
        /\ l \in DOMAIN s.pages[p].sections[q].lessons}

\* The name of a lesson of the input: the string itself, or its name field.
InputLessonName(lesson) == IF lesson.kind = "str" THEN lesson.str ELSE lesson.obj.name

\* [page.title, section.heading, lesson_name, level] of level i at position pos
TupleAt(s, pos, i) ==
    <<s.pages[pos[1]].title,
      s.pages[pos[1]].sections[pos[2]].heading,
      InputLessonName(s.pages[pos[1]].sections[pos[2]].lessons[pos[3]]),
      i>>

\* The composite key title|heading|lesson_name|level of a 4-tuple
KeyOf(v) == v[1] \o <<"|">> \o v[2] \o <<"|">> \o v[3] \o <<"|">> \o <<ToString(v[4])>>

\* The lesson levels of schema s
LevelsOf(s) == Positions(s) \X (1..3)

\* All composite keys of s are pairwise distinct.
UniqueKeys(s) ==
    Cardinality({KeyOf(TupleAt(s, a[1], a[2])) : a \in LevelsOf(s)}) = Cardinality(LevelsOf(s))

\* Level a is processed no later than level b: page, then section, then
\* lesson, then level order.
NoLater(a, b) ==
    LET x == <<a[1][1], a[1][2], a[1][3], a[2]>>
        y == <<b[1][1], b[1][2], b[1][3], b[2]>>
    IN \/ x = y
       \/ \E k \in 1..4 : x[k] < y[k] /\ \A m \in 1..(k - 1) : x[m] = y[m]

\* Every level of s with its composite key
KeysOf(s) == {<<a, KeyOf(TupleAt(s, a[1], a[2]))>> : a \in LevelsOf(s)}

\* The level processed last among those with the composite key of x, both
\* from keyed, the KeysOf of the schema
LastWithKey(keyed, x) ==
    LET same == {y \in keyed : y[2] = x[2]}
    IN (CHOOSE y \in same : \A z \in same : NoLater(z[1], y[1]))[1]

\* The level object the walked schema carries for level a
LevelAt(s, a) == s.pages[a[1][1]].sections[a[1][2]].lessons[a[1][3]].levels[a[2]]

\* Some required key is missing: pages; a page's title or sections; a
\* section's lessons; the heading of a section that has a lesson; the name
\* of an object lesson.
MissingRequiredKey(s) ==
    \/ "pages" \notin DOMAIN s
    \/ \E p \in DOMAIN s.pages :
          \/ "title" \notin DOMAIN s.pages[p]
          \/ "sections" \notin DOMAIN s.pages[p]
          \/ \E q \in DOMAIN s.pages[p].sections :
                LET section == s.pages[p].sections[q]
                IN \/ "lessons" \notin DOMAIN section
                   \/ /\ section.lessons # <<>>
                      /\ "heading" \notin DOMAIN section
                   \/ \E l \in DOMAIN section.lessons :
                         /\ section.lessons[l].kind = "obj"
                         /\ "name" \notin DOMAIN section.lessons[l].obj

LacksSeed(s) == "config" \notin DOMAIN s \/ "uuid_seed" \notin DOMAIN s.config
HasDefaultSeed(s) == ~LacksSeed(s) /\ s.config.uuid_seed = DefaultSeed

\* ------------------------------------------------------------ properties

\* C1 (determinism): a run of build() on the input of the last completed run
\* attaches the same identifiers at every position of the schema and builds
\* the same registry, keys and 4-tuples, as that run did.
C1_Determinism ==
    (Rendering /\ lastRun.has /\ lastRun.input = schemaFile.json)
        => (schema = lastRun.schema /\ drill_registry = lastRun.registry)

C1_Witness ==
    /\ pc = "walked"
    /\ builds = 2
    /\ lastRun.has
    /\ lastRun.input = schemaFile.json
    /\ Len(drill_registry) >= 6

\* C2 (cardinality): when the composite keys of the input are pairwise
\* distinct, the registry has 3 entries per lesson of the schema.
C2_Cardinality ==
    (Walked /\ UniqueKeys(InputSchema))
        => Len(drill_registry) = 3 * Cardinality(Positions(InputSchema))

C2_Witness ==
    /\ pc = "walked"
    /\ UniqueKeys(InputSchema)
    /\ Cardinality(Positions(InputSchema)) = MaxPages * MaxSections * MaxLessons
    /\ Len(drill_registry) = 3 * MaxPages * MaxSections * MaxLessons

\* C3 (overwrite, last write wins): the identifier of every lesson level is
\* in the registry once, with the 4-tuple of the level processed last among
\* those with the same composite key; the registry has one entry per distinct
\* composite key.
C3_LastWriteWins ==
    Walked =>
        LET keyed == KeysOf(InputSchema)
        IN /\ \A x \in keyed :
                 LET u == LevelAt(schema, x[1]).uid
                     b == LastWithKey(keyed, x)
                 IN /\ Cardinality({k \in DOMAIN drill_registry : drill_registry[k].key = u}) = 1
                    /\ RegGet(drill_registry, u) = TupleAt(InputSchema, b[1], b[2])
           /\ Len(drill_registry) = Cardinality({x[2] : x \in keyed})

\* Two levels with one composite key and different 4-tuples (a "|" in a title
\* or heading), the registry holding the later one's.
C3_Witness ==
    /\ pc = "walked"
    /\ \E a, b \in LevelsOf(InputSchema) :
          /\ a # b
          /\ NoLater(a, b)
          /\ KeyOf(TupleAt(InputSchema, a[1], a[2])) = KeyOf(TupleAt(InputSchema, b[1], b[2]))
          /\ TupleAt(InputSchema, a[1], a[2]) # TupleAt(InputSchema, b[1], b[2])
          /\ RegGet(drill_registry, LevelAt(schema, a).uid) = TupleAt(InputSchema, b[1], b[2])

\* C4 (level completeness): after the walk every lesson of the schema is an
\* object {name, levels} with exactly 3 levels, num = 1, 2, 3 in that order,
\* each with a uid.
C4_LevelCompleteness ==
    Walked =>
        \A p \in DOMAIN schema.pages : \A q \in DOMAIN schema.pages[p].sections :
            \A l \in DOMAIN schema.pages[p].sections[q].lessons :
                LET lesson == schema.pages[p].sections[q].lessons[l]
                IN /\ DOMAIN lesson = {"name", "levels"}
                   /\ Len(lesson.levels) = 3
                   /\ \A i \in 1..3 :
                         /\ DOMAIN lesson.levels[i] = {"num", "uid"}
                         /\ lesson.levels[i].num = i

\* A section given a bare string and an object, both rewritten.
C4_Witness ==
    /\ pc = "walked"
    /\ \E p \in DOMAIN schema.pages : \E q \in DOMAIN schema.pages[p].sections :
          LET given == InputSchema.pages[p].sections[q].lessons
          IN /\ Len(given) = 2
             /\ given[1].kind = "str"
             /\ given[2].kind = "obj"
             /\ Len(schema.pages[p].sections[q].lessons[2].levels) = 3

\* C5 (round trip): every identifier of the registry is the identifier
\* derived from the namespace of the seed and the composite key of the
\* 4-tuple it maps to.
C5_RoundTrip ==
    Walked =>
        \A k \in DOMAIN drill_registry :
            LET v == drill_registry[k].val
            IN uuid5(uuid5(NAMESPACE_DNS, seed_string(InputSchema)), unique_path(v[1], v[2], v[3], v[4]))
                   = drill_registry[k].key

\* A registry with an entry that was overwritten.
C5_Witness ==
    /\ pc = "walked"
    /\ drill_registry # <<>>
    /\ Len(drill_registry) < 3 * Cardinality(Positions(InputSchema))
    /\ \E a, b \in LevelsOf(InputSchema) :
          /\ KeyOf(TupleAt(InputSchema, a[1], a[2])) = KeyOf(TupleAt(InputSchema, b[1], b[2]))
          /\ TupleAt(InputSchema, a[1], a[2]) # TupleAt(InputSchema, b[1], b[2])

\* C6 (abort before output): while schema.json is missing or lacks a
\* required key, no step creates the output directory or writes an output
\* file or the registry file, and no run gets past the tree walk.
C6_AbortBeforeOutput ==
    [][(~schemaFile'.exists \/ MissingRequiredKey(schemaFile'.json))
          => (UNCHANGED <<dirExists, dist, registryFile>> /\ ~Rendering')]_vars

\* A run ended by the missing heading of a section that has a lesson.
C6_Witness ==
    /\ pc = "aborted"
    /\ schemaFile.exists
    /\ "pages" \in DOMAIN schemaFile.json
    /\ \E p \in DOMAIN schemaFile.json.pages :
          /\ DOMAIN schemaFile.json.pages[p] = {"title", "sections"}
          /\ \E q \in DOMAIN schemaFile.json.pages[p].sections :
                /\ DOMAIN schemaFile.json.pages[p].sections[q] = {"lessons"}
                /\ schemaFile.json.pages[p].sections[q].lessons # <<>>
    /\ ~dirExists
    /\ ~registryFile.exists

\* C7 (seed fallback): a schema without uuid_seed is no error, and its run
\* builds the identifiers and the registry of the run on the same pages with
\* uuid_seed set to "default_seed".
C7_SeedFallback ==
    /\ (pc = "aborted" /\ schemaFile.exists /\ LacksSeed(schemaFile.json))
          => MissingRequiredKey(schemaFile.json)
    /\ ( /\ Rendering
         /\ lastRun.has
         /\ lastRun.input.pages = schemaFile.json.pages
         /\ \/ LacksSeed(schemaFile.json) /\ HasDefaultSeed(lastRun.input)
            \/ HasDefaultSeed(schemaFile.json) /\ LacksSeed(lastRun.input) )
          => (schema.pages = lastRun.schema.pages /\ drill_registry = lastRun.registry)

C7_Witness ==
    /\ pc = "walked"
    /\ lastRun.has
    /\ lastRun.input.pages = schemaFile.json.pages
    /\ "config" \in DOMAIN schemaFile.json
    /\ LacksSeed(schemaFile.json)
    /\ HasDefaultSeed(lastRun.input)
    /\ Len(drill_registry) >= 6

\* What is between the quotes of t from j on: where the closing quote is.
RECURSIVE ClosingQuote(_, _)
ClosingQuote(t, j) ==
    IF j > Len(t) THEN j ELSE IF t[j] = "\"" THEN j ELSE ClosingQuote(t, j + 1)

DigitChars == {ToString(d) : d \in 0..9}

RECURSIVE NextToken(_, _)
\* The next quote or digit of t at or after i.
NextToken(t, i) ==
    IF i > Len(t) THEN i
    ELSE IF t[i] = "\"" \/ t[i] \in DigitChars THEN i
    ELSE NextToken(t, i + 1)

RECURSIVE Tokens(_, _, _)
\* The strings and numbers of the JSON text t from i on, in order.
Tokens(t, i, acc) ==
    LET j == NextToken(t, i)
    IN IF j > Len(t) THEN acc
       ELSE IF t[j] = "\""
            THEN LET q == ClosingQuote(t, j + 1)
                 IN Tokens(t, q + 1, Append(acc, SubSeq(t, j + 1, q - 1)))
            ELSE Tokens(t, j + 1, Append(acc, CHOOSE d \in 0..9 : ToString(d) = t[j]))

\* The registry a reader of the JSON text t gets: identifier -> 4-tuple.
ParsedRegistry(t) ==
    LET tk == Tokens(t, 1, <<>>)
    IN {[key |-> Join(tk[5 * k + 1]),
         val |-> <<tk[5 * k + 2], tk[5 * k + 3], tk[5 * k + 4], tk[5 * k + 5]>>] :
            k \in 0..((Len(tk) \div 5) - 1)}

\* C8 (registry replacement): after any sequence of runs the registry file
\* holds exactly the registry of the last run that ended well: its
\* identifiers, each with its 4-tuple, and nothing of an earlier run besides.
C8_RegistryFileHoldsLastRegistry ==
    lastRun.has =>
        /\ registryFile.exists
        /\ ParsedRegistry(registryFile.text) = {lastRun.registry[k] : k \in DOMAIN lastRun.registry}

\* The listing, app shell and landing renders of the run
ListingRender(page) == Render("list.j2", page, nav_items, ConfigOf(schema))
AppRender == Render("app.j2", [title |-> <<"D", "r", "i", "l", "l">>], nav_items, ConfigOf(schema))
IndexRender == Render("index.j2", [title |-> <<"H", "o", "m", "e">>], nav_items, ConfigOf(schema))

\* C9 (output files): after a run that ended well, <title>.html holds the
\* listing render of every page, whatever the titles (equal titles, "App"
\* and "index" included), App.html the app shell render and index.html the
\* landing render.
C9_OutputFiles ==
    pc = "done" =>
        /\ \A p \in DOMAIN schema.pages :
              dist[schema.pages[p].title \o HtmlSuffix] = ListingRender(schema.pages[p])
        /\ dist[AppFile] = AppRender
        /\ dist[IndexFile] = IndexRender

\* The identifiers the walked schema carries
SchemaUids(s) == {LevelAt(s, a).uid : a \in LevelsOf(s)}

\* C10 (schema and registry agree): after the walk the identifiers attached
\* to the levels of the schema are the keys of the registry; when the
\* composite keys are pairwise distinct, each identifier maps to the title,
\* heading, lesson name and num of the level that carries it.
C10_SchemaRegistryAgree ==
    Walked =>
        /\ SchemaUids(schema) = RegKeys(drill_registry)
        /\ UniqueKeys(InputSchema) =>
              \A a \in LevelsOf(schema) :
                  RegGet(drill_registry, LevelAt(schema, a).uid)
                      = <<schema.pages[a[1][1]].title,
                          schema.pages[a[1][1]].sections[a[1][2]].heading,
                          schema.pages[a[1][1]].sections[a[1][2]].lessons[a[1][3]].name,
                          LevelAt(schema, a).num>>

\* Colliding composite keys, the identifiers still the registry's keys.
C10_Witness ==
    /\ pc = "walked"
    /\ ~UniqueKeys(InputSchema)
    /\ Cardinality(SchemaUids(schema)) = 3
    /\ Len(drill_registry) = 3
    /\ Cardinality(Positions(InputSchema)) >= 2
====
